---------------------------- MODULE Spec2Model ----------------------------
(***************************************************************************)
(* A model of cargo-emerge: the template resolver (src/src/tpl.rs), the    *)
(* manifest resolver (src/src/manifest.rs) and the packaging run           *)
(* (src/src/main.rs, cmd.rs, utils.rs, linux/archive.rs,                   *)
(* windows/archive.rs, macos/dmg.rs).                                      *)
(*                                                                         *)
(* Strings are sequences of one-character strings, so that str::replace,   *)
(* Path::join and the template scan work on characters.  An Option<T> is a *)
(* sequence of length at most one: None is <<>>, Some(v) is <<v>>.         *)
(*                                                                         *)
(* Three specifications share the variables:                               *)
(*   SpecTpl       one call of Tpl::parse on a bounded text and mapping    *)
(*   SpecManifest  one manifest resolution over a bounded file system      *)
(*   Spec          one run of the tool from the loaded plan to its exit    *)
(***************************************************************************)
EXTENDS Integers, Sequences, FiniteSets, TLC

\* ------------------------------------------------------------------------
\* Bounds of the model
\* ------------------------------------------------------------------------

\* Longest template text given to Tpl::parse in SpecTpl.
MaxLen == 3

\* Most build commands in a plan of Spec.
MaxBuilds == 2

\* Most copy operations in a plan of Spec.
MaxCopies == 2

\* Most writes of a child process in SpecCmd.
MaxWrites == 3

\* What a pipe holds before a write to it blocks, in writes, in SpecCmd.
PipeCap == 2

\* ------------------------------------------------------------------------
\* Option and sequence helpers
\* ------------------------------------------------------------------------

None == <<>>

Some(v) == <<v>>

IsSome(o) == Len(o) = 1

Unwrap(o) == o[1]

\* All sequences over S of length at most n.
SeqsUpTo(S, n) == UNION {[1..k -> S] : k \in 0..n}

\* All orders in which the elements of the finite set S can be listed.
Perms(S) ==
    {p \in [1..Cardinality(S) -> S] : \A i, j \in 1..Cardinality(S) : p[i] = p[j] => i = j}

IsPrefix(p, s) == Len(p) <= Len(s) /\ SubSeq(s, 1, Len(p)) = p

\* ------------------------------------------------------------------------
\* Template resolver (src/src/tpl.rs)
\* ------------------------------------------------------------------------

\* str::replace(pattern, value): the non-overlapping matches of a non-empty
\* pattern, found left to right, are replaced; the inserted value is not
\* scanned again within the same call.
RECURSIVE Replace(_, _, _)
Replace(s, pattern, value) ==
    IF Len(s) < Len(pattern) THEN s
    ELSE IF IsPrefix(pattern, s)
         THEN value \o Replace(SubSeq(s, Len(pattern) + 1, Len(s)), pattern, value)
         ELSE <<Head(s)>> \o Replace(Tail(s), pattern, value)

\* format!("${}", key)
Pattern(key) == <<"$">> \o key

\* One turn of the loop of Tpl::parse: every occurrence of "$" + key in the
\* result so far, whatever follows it, is replaced by the key's value.
ParseKey(result, key, value) == Replace(result, Pattern(key), value)

\* Tpl::parse with the keys of the map visited in the given order (a HashMap
\* iterates in an order the program does not control).
RECURSIVE ParseFrom(_, _, _, _)
ParseFrom(variables, order, k, result) ==
    IF k > Len(order) THEN result
    ELSE ParseFrom(variables, order, k + 1,
                   ParseKey(result, order[k], variables[order[k]]))

TplParse(variables, order, input) == ParseFrom(variables, order, 1, input)

\* Tpl::parse_vec
TplParseVec(variables, order, input) ==
    [i \in 1..Len(input) |-> TplParse(variables, order, input[i])]

\* Texts, keys and values of SpecTpl.  Names are written with the letters
\* N, S and V: "N" and "NS" stand for a key and a longer name it starts.
TplAlphabet == {"$", "N", "S", "V", "-"}

TplTexts == SeqsUpTo(TplAlphabet, MaxLen)

TplKeys == {<<"N">>, <<"V">>, <<"N", "S">>}

TplValues == {<<"a">>, <<"$", "V">>}

TplMappings == UNION {[K -> TplValues] : K \in SUBSET TplKeys}

\* ------------------------------------------------------------------------
\* Manifest resolver (src/src/manifest.rs)
\* ------------------------------------------------------------------------

\* The keys process_manifest registers.
NAME == <<"N", "A", "M", "E">>

VERSION == <<"V", "E", "R", "S", "I", "O", "N">>

PLATFORM == <<"P", "L", "A", "T", "F", "O", "R", "M">>

\* utils::platform_string() of the build that runs.
PlatformStrings ==
    {<<"l", "i", "n", "u", "x">>, <<"m", "a", "c", "o", "s">>,
     <<"w", "i", "n", "d", "o", "w", "s">>}

\* PathBuf::is_absolute on a POSIX path
IsAbsolute(path) == path # <<>> /\ Head(path) = "/"

\* PathBuf::join: an absolute argument replaces the base.
Join(base, path) == IF IsAbsolute(path) THEN path ELSE base \o <<"/">> \o path

\* A TOML value given for package.name or package.version: a string, or a
\* table such as { workspace = true }.
RawString(s) == [workspace |-> FALSE, s |-> s]

RawWorkspace == [workspace |-> TRUE, s |-> <<>>]

\* deserialize_string_or_workspace: a table becomes the empty string.
DeserializeStringOrWorkspace(raw) == IF raw.workspace THEN <<>> ELSE raw.s

\* deserialize_option_string_or_workspace: a table becomes None.
DeserializeOptionStringOrWorkspace(raw) ==
    IF raw = None THEN None
    ELSE IF Unwrap(raw).workspace THEN None ELSE Some(Unwrap(raw).s)

\* struct Package as serde builds it from the [package] table of a file.
DeserializePackage(raw) ==
    [name |-> DeserializeStringOrWorkspace(raw.name),
     version |-> DeserializeStringOrWorkspace(raw.version),
     description |-> DeserializeOptionStringOrWorkspace(raw.description),
     emerge |-> raw.emerge]

\* The copy list of an EmergeConfig is a list of maps; a map is written here
\* as the list of its (source, destination) entries in the order the map
\* yields them.  The nested loops of process_manifest push them in turn.
RECURSIVE FlattenCopy(_)
FlattenCopy(copy) ==
    IF copy = <<>> THEN <<>> ELSE Head(copy) \o FlattenCopy(Tail(copy))

\* A table of `copy` is deserialized into a HashMap, which yields its
\* entries in an order of its own: any order of the pairs written.
Reorderings(table) ==
    {[i \in 1..Len(table) |-> table[p[i]]] : p \in Perms(1..Len(table))}

\* The `copy` list as process_manifest may find it iterated: the tables in
\* the order written, the pairs of each table in any order.
IterationOrders(copy) ==
    {c \in [DOMAIN copy -> UNION {Reorderings(copy[i]) : i \in DOMAIN copy}] :
        \A i \in DOMAIN copy : c[i] \in Reorderings(copy[i])}

\* The variables process_manifest registers for a package.
Registered(package, platform) ==
    (NAME :> package.name) @@ (VERSION :> package.version) @@ (PLATFORM :> platform)

\* A default filename with version and platform exchanged.
DefaultFilenameVersionFirst(package, platform) ==
    package.name \o <<"-">> \o package.version \o <<"-">> \o platform

\* filename: the template-resolved value, or "{name}-{platform}-{version}".
DefaultFilename(package, platform) ==
    package.name \o <<"-">> \o platform \o <<"-">> \o package.version

\* Manifest::process_manifest: the plan built from a package and a packaging
\* block, with the template map yielding its keys in tplOrder.
ProcessManifest(base_dir, platform, package, emerge_config, tplOrder) ==
    LET tpl == Registered(package, platform)
        P(text) == TplParse(tpl, tplOrder, text)
        entries == FlattenCopy(emerge_config.copy)
    IN  [name |-> package.name,
         version |-> package.version,
         description |->
            IF IsSome(package.description) THEN Unwrap(package.description) ELSE <<>>,
         title |->
            IF IsSome(emerge_config.title)
            THEN P(Unwrap(emerge_config.title)) ELSE package.name,
         filename |->
            IF IsSome(emerge_config.filename)
            THEN P(Unwrap(emerge_config.filename))
            ELSE DefaultFilename(package, platform),
         build_commands |-> TplParseVec(tpl, tplOrder, emerge_config.build),
         copy_operations |->
            [i \in 1..Len(entries) |->
                <<Join(base_dir, P(entries[i][1])), P(entries[i][2])>>],
         output_folder |->
            IF IsSome(emerge_config.output_folder)
            THEN Join(base_dir, P(Unwrap(emerge_config.output_folder)))
            ELSE Join(base_dir, <<"s", "e", "t", "u", "p">>),
         icon |->
            IF IsSome(emerge_config.icon)
            THEN Some(Join(base_dir, P(Unwrap(emerge_config.icon)))) ELSE None,
         dmg |-> emerge_config.dmg]

\* A file as the resolver reads it.  kind is
\*   "missing"      no file at the path
\*   "unreadable"   read_to_string fails
\*   "cargo"        parses as CargoToml (package / workspace tables optional)
\*   "emerge_only"  does not parse as CargoToml but parses as EmergeConfig
\*   "garbage"      parses as neither
File(kind, package, workspace_manifest) ==
    [kind |-> kind, package |-> package, workspace_manifest |-> workspace_manifest]

\* The outcome of one step of the resolver: where it goes on and with what.
Goto(pc, path, package, emerge, error) ==
    [pc |-> pc, path |-> path, package |-> package, emerge |-> emerge, error |-> error]

Failed(error) == Goto("failed", None, None, None, error)

\* A load that does not look at the block's `manifest` property and uses the
\* embedded block.
LoadFromPackageEmbeddedOnly(rawPackage) ==
    LET package == DeserializePackage(rawPackage)
    IN  IF package.emerge = None THEN Failed("InvalidManifest")
        ELSE Goto("process", None, Some(package), package.emerge, "")

\* manifest.rs:202-221  the [package] branch of Manifest::load
LoadFromPackage(rawPackage) ==
    LET package == DeserializePackage(rawPackage)
    IN  IF package.emerge = None THEN Failed("InvalidManifest")
        ELSE IF IsSome(Unwrap(package.emerge).manifest)
             THEN Goto("load_ext", Unwrap(package.emerge).manifest, None, None, "")
             ELSE Goto("process", None, Some(package), package.emerge, "")

\* Manifest::load
Load(file) ==
    IF file.kind \in {"missing", "unreadable"} THEN Failed("Io")
    ELSE IF file.kind # "cargo" THEN Failed("InvalidManifest")
    ELSE IF IsSome(file.workspace_manifest)
         THEN Goto("load_ext", file.workspace_manifest, None, None, "")
    ELSE IF IsSome(file.package) THEN LoadFromPackage(Unwrap(file.package))
    ELSE Failed("InvalidManifest")

\* Manifest::load_with_emerge_manifest
LoadWithEmergeManifest(file) ==
    IF file.kind = "missing" THEN Failed("ManifestNotFound")
    ELSE IF file.kind = "unreadable" THEN Failed("Io")
    ELSE IF file.kind = "cargo" /\ IsSome(file.package)
         THEN LET package == DeserializePackage(Unwrap(file.package))
              IN  IF IsSome(package.emerge)
                  THEN Goto("process", None, Some(package), package.emerge, "")
                  ELSE Failed("InvalidManifest")
    ELSE Failed("InvalidManifest")

\* ------------------------------------------------------------------------
\* Inputs of SpecManifest
\* ------------------------------------------------------------------------

\* Context::base_dir
BaseDir == <<"/", "p">>

\* Paths a `manifest` property or the --manifest option can name.  Nothing
\* exists at "gone.toml".
ExtPaths == {"ext.toml", "ext2.toml", "gone.toml"}

Platforms == {"linux", "macos", "windows"}

\* utils::platform_string()
PlatformString(platform) ==
    CASE platform = "linux" -> <<"l", "i", "n", "u", "x">>
      [] platform = "macos" -> <<"m", "a", "c", "o", "s">>
      [] platform = "windows" -> <<"w", "i", "n", "d", "o", "w", "s">>

\* The packaging directives of an EmergeConfig.
Directives == {"title", "filename", "build", "copy", "output_folder", "icon", "dmg"}

DmgSample(tag) ==
    [background |-> Some(<<tag, "g">>),
     window_position |-> None,
     window_size |-> None,
     app_position |-> None,
     applications_position |-> None]

\* An EmergeConfig that sets the directives in `set`, each to a text that
\* starts with `tag` (so that blocks written in different files differ), and
\* whose `manifest` property is `manifest`.
ConfigOf(tag, set, manifest) ==
    [title |-> IF "title" \in set THEN Some(<<tag, "-", "$">> \o NAME) ELSE None,
     filename |-> IF "filename" \in set THEN Some(<<tag, "-", "$">> \o VERSION) ELSE None,
     build |-> IF "build" \in set THEN <<<<tag, "b">>>> ELSE <<>>,
     copy |-> IF "copy" \in set THEN <<<<<<<<tag, "s">>, <<tag, "d">>>>>>>> ELSE <<>>,
     output_folder |-> IF "output_folder" \in set THEN Some(<<tag, "o">>) ELSE None,
     icon |-> IF "icon" \in set THEN Some(<<tag, "i">>) ELSE None,
     dmg |-> IF "dmg" \in set THEN Some(DmgSample(tag)) ELSE None,
     manifest |-> manifest]

\* A [package] table as written in a file.
RawPackage(name, version, emerge) ==
    [name |-> name, version |-> version, description |-> None, emerge |-> emerge]

\* name and version as a file can give them: a string, the empty string, or
\* a table such as { workspace = true }.
RawNames(tag) == {RawString(<<tag, "a", "p", "p">>), RawString(<<>>), RawWorkspace}

RawVersions == {RawString(<<"1">>), RawWorkspace}

\* The blocks used where the layering is varied: no directive or all of them.
LayeringSets == {{}, Directives}

Redirects == {None, Some("ext.toml"), Some("gone.toml")}

\* `copy` lists as written in a file: the pairs in tables of their own, or
\* two pairs in one table.
CopySamples ==
    {<<>>,
     << <<<<<<"a">>, <<"d">>>>>>, <<<<<<"b">>, <<"d">>>>>> >>,
     << <<<<<<"a">>, <<"d">>>>, <<<<"b">>, <<"d">>>>>> >>,
     << <<<<<<"a">>, <<"d">>>>, <<<<"b">>, <<"e">>>>>>, <<<<<<"c">>, <<"d">>>>>> >>}

\* Primary files for a package of the given names and versions.
PrimaryFiles(names, versions, sets) ==
    {File("unreadable", None, None), File("garbage", None, None)}
    \cup {File("cargo", package, ws) :
            package \in {None} \cup
                {Some(RawPackage(n, v, e)) :
                    n \in names, v \in versions,
                    e \in {None} \cup
                        {Some(ConfigOf("e", set, m)) : set \in sets, m \in Redirects}},
            ws \in Redirects}

ExternalFiles(names, versions, sets) ==
    {File("unreadable", None, None), File("garbage", None, None),
     File("emerge_only", None, None), File("cargo", None, None)}
    \cup {File("cargo", Some(RawPackage(n, v, e)), None) :
            n \in names, v \in versions,
            e \in {None} \cup
                {Some(ConfigOf("x", set, m)) :
                    set \in sets, m \in {None, Some("ext2.toml")}}}

\* What "ext2.toml" holds: a full manifest of its own.
SecondFile ==
    File("cargo",
         Some(RawPackage(RawString(<<"y", "a", "p", "p">>), RawString(<<"2">>),
                         Some(ConfigOf("y", Directives, None)))),
         None)

FileSystem(ext) ==
    [path \in ExtPaths |->
        CASE path = "ext.toml" -> ext
          [] path = "ext2.toml" -> SecondFile
          [] path = "gone.toml" -> File("missing", None, None)]

\* ------------------------------------------------------------------------
\* The run (src/src/main.rs, cmd.rs, utils.rs, linux/archive.rs,
\* windows/archive.rs, macos/dmg.rs)
\* ------------------------------------------------------------------------

\* A build command after split_whitespace: its words.  A command of blanks
\* only has none.
Commands == {<<>>, <<"cargo", "build">>}

\* Source paths of copy operations; nothing exists at "absent" when the
\* staging step reads it.
SrcPaths == {"bin", "absent"}

SourceExists(src) == src # "absent"

\* Permission bits: 0o755, 0o644 and 0o666.
Mode755 == 493

Mode644 == 420

Mode666 == 438

\* The bit 0o002 of a mode.
WorldWritable(mode) == (mode \div 2) % 2 = 1

\* Source::is_dir
IsDir(src) == src = "dir"

\* The regular files of a source, each with its path below the source (empty
\* for a source that is a file) and its mode: "bin" and "notes" are files,
\* "dir" is a directory with two children.
SourceFiles(src) ==
    CASE src = "bin" -> {[rel |-> <<>>, mode |-> Mode644]}
      [] src = "notes" -> {[rel |-> <<>>, mode |-> Mode666]}
      [] src = "dir" -> {[rel |-> <<"tool">>, mode |-> Mode644],
                         [rel |-> <<"data.txt">>, mode |-> Mode666]}
      [] OTHER -> {}

\* Path::extension, for the file names used.
Extension(path) ==
    IF path = <<>> THEN None
    ELSE CASE path[Len(path)] = "README.md" -> Some("md")
           [] path[Len(path)] = "conf.json" -> Some("json")
           [] path[Len(path)] = "data.txt" -> Some("txt")
           [] OTHER -> None

\* linux/archive.rs:47  the extensions create_tar_gz takes for documentation
FlatDocExtensions == {"md", "txt", "pdf", "html", "toml", "json", "yml", "yaml"}

\* dmg.rs:37  the extensions dmg::create takes for documentation
DmgDocExtensions == {"md", "txt", "pdf", "html", "toml"}

\* is_documentation of a destination, in the staging of `output`
IsDocumentation(output, dst) ==
    /\ IsSome(Extension(dst))
    /\ Unwrap(Extension(dst)) \in (IF output = "dmg" THEN DmgDocExtensions ELSE FlatDocExtensions)

\* A path is kept as its components, an absolute one with "/" in front.
\* Destinations of copy operations, relative to the staging root.
DstPaths == {<<"app">>}

\* Destinations as a manifest may give them: relative, absolute, or with
\* `..` components.
DstSamples ==
    {<<"app">>, <<"/", "abs", "app">>, <<"..", "..", "app">>, <<"docs", "..", "app">>}

\* std::path::Path::join: an absolute path replaces the base
PathJoin(base, path) == IF path # <<>> /\ path[1] = "/" THEN path ELSE base \o path

\* The place in the file system a path names: `..` leaves the directory
\* reached so far (the root has none to leave).
RECURSIVE Resolve(_, _)
Resolve(reached, path) ==
    IF path = <<>> THEN reached
    ELSE IF Head(path) = ".."
         THEN Resolve(IF Len(reached) > 1 THEN SubSeq(reached, 1, Len(reached) - 1) ELSE reached,
                      Tail(path))
         ELSE Resolve(Append(reached, Head(path)), Tail(path))

\* linux/archive.rs:18, windows/archive.rs:20, dmg.rs:19  the staging
\* directory <tmp>/emerge-<name>
TempRoot == <<"/", "tmp", "emerge-app">>

\* linux/archive.rs:25, windows/archive.rs:27, dmg.rs:27, 98  where the
\* destinations are joined to: app_dir, or the bundle's MacOS folder
MacosDir == TempRoot \o <<"App.app", "Contents", "MacOS">>

CopyRoot(output, dst) ==
    IF output = "dmg"
    THEN (IF IsDocumentation("dmg", dst) THEN TempRoot ELSE MacosDir)
    ELSE TempRoot \o <<"app">>

\* linux/archive.rs:29, windows/archive.rs:31, dmg.rs:44  dest_path, as the
\* file system resolves it
DestPath(output, dst) == Resolve(<<>>, PathJoin(CopyRoot(output, dst), dst))

\* linux/archive.rs:44-57, dmg.rs:56-67  whether the copy is followed by a
\* chmod to 0o755: the destination is a regular file and, in a tar.gz
\* staging, not documentation, in a disk-image staging, written below the
\* MacOS folder; the zip staging sets no mode
SetsMode(output, src, dst) ==
    /\ ~IsDir(src)
    /\ CASE output = "tar.gz" -> ~IsDocumentation("tar.gz", dst)
         [] output = "dmg" -> IsPrefix(MacosDir, PathJoin(CopyRoot("dmg", dst), dst))
         [] OTHER -> FALSE

\* The files one copy operation writes: fs::copy keeps the mode of the
\* source file.
CopiedFiles(output, op) ==
    {[place |-> DestPath(output, op.dst) \o f.rel,
      mode |-> IF SetsMode(output, op.src, op.dst) THEN Mode755 ELSE f.mode,
      src |-> <<op.src>> \o f.rel] : f \in SourceFiles(op.src)}

\* A file stands where the copy needs a directory, or a directory where it
\* writes a file.
Conflicts(tree, output, op) ==
    \E f \in tree, g \in CopiedFiles(output, op) :
        f.place # g.place /\ (IsPrefix(f.place, g.place) \/ IsPrefix(g.place, f.place))

\* The staged files after one copy operation: a file written again is
\* replaced.
StageOne(tree, output, op) ==
    {f \in tree : \A g \in CopiedFiles(output, op) : g.place # f.place}
        \cup CopiedFiles(output, op)

CopyOp(src, dst) == [src |-> src, dst |-> dst]

\* The file the plan's icon names: its extension, whether the image crate
\* can decode its content, and whether it exists.
IconFile(ext, decodable, exists) == [ext |-> ext, decodable |-> decodable, exists |-> exists]

IconFiles ==
    {IconFile("png", TRUE, TRUE), IconFile("png", FALSE, TRUE),
     IconFile("icns", TRUE, TRUE), IconFile("icns", FALSE, TRUE),
     IconFile("png", FALSE, FALSE)}

\* The plan's title, as the words a blank separates.
Titles == {<<"App">>, <<"My", "App">>}

\* The fields of the loaded Manifest the run reads.
Plan(build_commands, copy_operations, icon, title) ==
    [build_commands |-> build_commands, copy_operations |-> copy_operations,
     icon |-> icon, title |-> title]

\* Plans that vary the build commands.
BuildPlans ==
    {Plan(b, c, None, <<"App">>) :
        b \in SeqsUpTo(Commands, MaxBuilds),
        c \in {<<>>, <<CopyOp("bin", <<"app">>)>>}}

\* Plans that vary the copy operations and the icon.
StagingPlans ==
    {Plan(b, c, i, <<"App">>) :
        b \in {<<>>, <<<<"cargo", "build">>>>},
        c \in SeqsUpTo({CopyOp(src, dst) : src \in SrcPaths, dst \in DstPaths}, MaxCopies),
        i \in {None} \cup {Some(f) : f \in IconFiles}}

\* Plans that vary what the staged tree holds: what is copied (a file, a
\* world-writable file, a directory) and the extension of the destination.
TreePlans ==
    {Plan(<<>>, c, None, <<"App">>) :
        c \in SeqsUpTo({CopyOp("bin", <<"app">>), CopyOp("bin", <<"conf.json">>),
                        CopyOp("notes", <<"README.md">>), CopyOp("dir", <<"lib">>)},
                       MaxCopies) \ {<<>>}}

\* Plans for the disk-image driver that vary the title and the icon.
VolumePlans ==
    {Plan(<<>>, <<CopyOp("bin", <<"app">>)>>, i, t) :
        i \in {None, Some(IconFile("png", TRUE, TRUE)), Some(IconFile("icns", TRUE, TRUE))},
        t \in Titles}

\* main.rs:145-181  what run does after the build commands
\*   "tar.gz" | "zip" | "dmg", or "none": the early return of Ok(()) when a
\*   disk image is asked for on another platform than macOS
Dispatch(archive, dmg, current) ==
    IF archive
    THEN (IF current = "windows" THEN "zip" ELSE "tar.gz")
    ELSE IF dmg \/ current = "macos"
         THEN (IF current # "macos" THEN "none" ELSE "dmg")
         ELSE CASE current = "macos" -> "dmg"
                [] current = "linux" -> "tar.gz"
                [] current = "windows" -> "zip"

\* An execute that does not look at the exit status.
ExitOutcomeIgnored(status) == ""

\* cmd.rs:41-48  execute: a status other than success is an error
ExitOutcome(status) == IF status = 0 THEN "" ELSE "CommandFailed"

\* A copy_recursively that passes over a source that does not exist.
CopyRecursivelySkipMissing(src) == ""

\* utils.rs:6-32  copy_recursively: fs::copy of a source that does not exist
\* fails (a source that is no directory takes the else branch)
CopyRecursively(src) == IF SourceExists(src) THEN "" ELSE "Io"

\* A process_icon that goes on without an icon when the file cannot be
\* decoded.
ProcessIconLenient(icon) == IF ~icon.exists THEN "Io" ELSE ""

\* dmg.rs:167-180  process_icon: an .icns file is copied as it is; any other
\* file is opened and decoded
ProcessIcon(icon) ==
    IF ~icon.exists THEN "Io"
    ELSE IF icon.ext = "icns" THEN ""
    ELSE IF icon.decodable THEN "" ELSE "Image"

\* Plans that vary the destinations of the copy operations.
DestinationPlans ==
    {Plan(<<>>, c, None, <<"App">>) :
        c \in SeqsUpTo({CopyOp("bin", dst) : dst \in DstSamples}, MaxCopies) \ {<<>>}}

\* cmd.rs:13-17, 39-48, 59-70  how a tool invocation ends: with status
\* success, not spawned, or with another status
ToolResults == {"ok", "spawn", "status"}

\* A cmd::execute that takes every result for success.
ToolOutcomeIgnored(r) == ""

\* cmd.rs:13-17, 39-48, 59-70  execute and execute_with_output: the error
\* returned, "" when none
ToolOutcome(r) ==
    CASE r = "ok" -> ""
      [] r = "spawn" -> "Io"
      [] r = "status" -> "CommandFailed"

\* Text is kept as its whitespace-delimited tokens, and a token as its
\* segments, so that a leading "/Volumes/" can be told.
\* The path under which macOS mounts a volume named `title`.
VolumePath(title) ==
    <<<<"/Volumes/", title[1]>>>> \o [i \in 1..(Len(title) - 1) |-> <<title[i + 1]>>]

\* A volume of somebody else that may be mounted while the run goes on.
ForeignPath == <<<<"/Volumes/", "My">>>>

\* Where an attached image is mounted.
MountPath(image, title) == IF image = "foreign" THEN ForeignPath ELSE VolumePath(title)

\* dmg.rs:278-279  what hdiutil attach prints for a volume named `title`:
\* its lines, each a sequence of tokens
AttachOutput(title) ==
    << <<<<"/dev/disk4">>, <<"GUID_partition_scheme">>>>,
       <<<<"/dev/disk4s1">>, <<"Apple_HFS">>>> \o VolumePath(title) >>

\* What a successful hdiutil attach may print: the usual lines, or nothing.
AttachOutputs(title) == {AttachOutput(title), <<>>}

\* dmg.rs:285  part.starts_with("/Volumes/")
StartsWithVolumes(token) == token[1] = "/Volumes/"

\* dmg.rs:282  line.contains("/Volumes/")
ContainsVolumes(line) == \E j \in DOMAIN line : StartsWithVolumes(line[j])

\* The least member of a non-empty set of numbers.
Least(S) == CHOOSE x \in S : \A y \in S : x <= y

\* dmg.rs:280-287  create_dmg_image: the mount point is the first token
\* starting with /Volumes/ of the first line containing /Volumes/
MountPointOfAttach(lines) ==
    LET hits == {i \in DOMAIN lines : ContainsVolumes(lines[i])}
    IN  IF hits = {} THEN None
        ELSE LET line == lines[Least(hits)]
             IN  Some(<<line[Least({j \in DOMAIN line : StartsWithVolumes(line[j])})]>>)

\* dmg.rs:463-467  configure_icon: the mount point is the last token of the
\* last line
MountPointOfIconAttach(lines) ==
    IF lines = <<>> THEN None
    ELSE LET line == lines[Len(lines)]
         IN  IF line = <<>> THEN None ELSE Some(<<line[Len(line)]>>)

\* The images mounted at `path`.
AttachedAt(attached, path, title) == {img \in attached : MountPath(img, title) = path}

\* A detach that leaves the artifact's volume mounted.
DetachKeepsArtifact(attached, path, title) ==
    attached \ (AttachedAt(attached, path, title) \ {"dmg"})

\* dmg.rs:312, 492  what hdiutil detach <path> leaves attached
Detach(attached, path, title) == attached \ AttachedAt(attached, path, title)

\* One step of the disk-image driver as it was performed: its name, the
\* mount path it was given or captured, and how it ended ("ok" or not).
Call(step, path, end) == [step |-> step, path |-> path, end |-> end]

\* The output folder: whether it exists, the artifact at
\* <output_folder>/<filename>.<ext> and the intermediate image beside it.
\*   artifact: "absent" | "old" (of an earlier run) | "partial" (created by
\*   this run, not yet complete) | "new" (written by this run)
OutputFolder(exists, artifact, temp_dmg) ==
    [exists |-> exists, artifact |-> artifact, temp_dmg |-> temp_dmg]

\* The staging directory <tmp>/emerge-<name>: whether it exists, whether it
\* holds what an earlier run left, and the regular files in it (and those
\* its copy operations wrote elsewhere): where each is, its mode and the
\* source file it is a copy of.
TempDir(exists, stale, staged) == [exists |-> exists, stale |-> stale, staged |-> staged]

\* A file an earlier run left in the staging directory.
Leftover == [place |-> TempRoot \o <<"app", "old">>, mode |-> Mode666, src |-> <<"earlier">>]

\* A wipe that keeps what is there.
WipeKeepsContent(dir) == [dir EXCEPT !.exists = TRUE]

\* linux/archive.rs:19-22, windows/archive.rs:21-24, dmg.rs:20-23
\* remove_dir_all when the directory exists, then create_dir_all
Wipe(dir) == TempDir(TRUE, FALSE, {})

\* The entries an emitter writes for the files given: the path below the
\* staging directory, the mode (tar keeps the mode of the file, zip writes
\* 0o755 for each) and the content.
Entries(output, tree) ==
    {[path |-> SubSeq(f.place, Len(TempRoot) + 1, Len(f.place)),
      mode |-> IF output = "zip" THEN Mode755 ELSE f.mode,
      src |-> f.src] : f \in tree}

\* The staged files that are in the staging directory.
InStaging(tree) == {f \in tree : IsPrefix(TempRoot, f.place)}

\* ------------------------------------------------------------------------
\* customize_dmg_appearance (src/macos/dmg.rs): the Finder layout script
\* ------------------------------------------------------------------------

\* The coordinates of DmgConfig are i32.
Int32Max == 2147483647

Int32Min == -Int32Max - 1

\* a + b leaves the range of i32.
Overflows(a, b) ==
    \/ b > 0 /\ a > Int32Max - b
    \/ b < 0 /\ a < Int32Min - b

\* a + b modulo 2^32, as a two's complement i32.
WrappingAdd(a, b) ==
    IF b > 0 /\ a > Int32Max - b
    THEN (a - Int32Max - 1) + (b - Int32Max - 1)
    ELSE IF b < 0 /\ a < Int32Min - b
         THEN (a + Int32Max + 1) + (b + Int32Max + 1)
         ELSE a + b

\* `a + b` on i32: a build with overflow checks panics when the sum leaves
\* the range (None), a build without them wraps.
AddI32(a, b, checks) ==
    IF Overflows(a, b)
    THEN IF checks THEN None ELSE Some(WrappingAdd(a, b))
    ELSE Some(a + b)

\* Option::unwrap_or
UnwrapOr(option, default) == IF IsSome(option) THEN Unwrap(option) ELSE default

\* manifest.dmg.and_then(|d| d.<field>)
DmgField(config, field) == IF IsSome(config) THEN Unwrap(config)[field] ELSE None

WindowPos(config) == UnwrapOr(DmgField(config, "window_position"), <<100, 100>>)

WindowSize(config) == UnwrapOr(DmgField(config, "window_size"), <<600, 400>>)

AppPos(config) == UnwrapOr(DmgField(config, "app_position"), <<150, 200>>)

AppsPos(config) == UnwrapOr(DmgField(config, "applications_position"), <<450, 200>>)

\* The script names a background picture.
HasBackground(config) == IsSome(DmgField(config, "background"))

\* The text of the script, by the values formatted into it; None when
\* formatting panicked on an addition.
AppleScript(config, checks) ==
    LET right == AddI32(WindowPos(config)[1], WindowSize(config)[1], checks)
        bottom == AddI32(WindowPos(config)[2], WindowSize(config)[2], checks)
    IN  IF right = None \/ bottom = None
        THEN None
        ELSE Some([bounds |-> <<WindowPos(config)[1], WindowPos(config)[2],
                               Unwrap(right), Unwrap(bottom)>>,
                   background |-> HasBackground(config),
                   app_position |-> AppPos(config),
                   applications_position |-> AppsPos(config)])

\* Files of the mounted volume the customization writes.
BackgroundFile == <<".background", "background.png">>

ScriptFile == <<".setup_script.applescript">>

\* The [dmg] tables tried: absent, or with each property absent or given.
DmgConfigs ==
    {None} \cup
    {Some(c) : c \in
        [background : {None, Some(<<"b", "g">>)},
         window_position : {None, Some(<<10, 10>>), Some(<<Int32Max, 100>>),
                            Some(<<-20, Int32Min>>)},
         window_size : {None, Some(<<500, 300>>), Some(<<1, Int32Max>>), Some(<<-30, -1>>)},
         app_position : {None, Some(<<40, 50>>)},
         applications_position : {None, Some(<<40, 50>>)}]}

VARIABLES
    \* Tpl::parse
    tplPc,          \* "call" | "loop" | "done"
    variables,      \* Tpl.variables: registered key -> value
    input,          \* the text given to parse
    order,          \* the order in which the map yields its keys
    k,              \* number of keys already visited by the loop
    result,         \* the local `result` of parse
    \* manifest resolution
    mfPc,           \* "start" | "load" | "load_ext" | "process" | "ok" | "failed"
    platform,       \* the platform the tool was built for and runs on
    cli,            \* the --manifest option: None or Some(path)
    cargo,          \* the Cargo.toml at Context::manifest_path
    files,          \* the files a manifest path can name
    extPath,        \* the path given to load_with_emerge_manifest
    package,        \* the package given to process_manifest
    emerge_config,  \* the packaging block given to process_manifest
    plan,           \* the Manifest returned: None or Some(plan)
    error,          \* the error returned, "" when none
    \* the run
    pc,               \* where run() is
    outcome,          \* "" while running, "ok", or the error run() returns
    archive_flag,     \* --archive
    dmg_flag,         \* --dmg
    no_build,         \* --no-build
    current_platform, \* Platform::current()
    manifest,         \* the plan Manifest::load returns when it succeeds
    kind,             \* "" before the dispatch, then what Dispatch chose
    buildIdx,         \* position of the loop over build_commands
    child,            \* the running child process: None or Some(command index)
    started,          \* history: the commands spawned, in order
    exited,           \* history: the exit statuses collected, in order
    copyIdx,          \* position of the loop over copy_operations
    out,              \* the output folder
    out0,             \* history: the output folder before the run
    temp_dir0,        \* history: the staging directory before the run
    temp_dir,         \* the staging directory
    mounted,          \* the images attached: subset of {"temp_dmg", "dmg", "foreign"}
    icon_dir,         \* whether <tmp>/emerge-icon-config exists
    mount_point,      \* the mount point captured from the latest attach: None or Some(path)
    calls,            \* history: the steps of the disk-image driver performed
    archive,          \* the entries written to the tar.gz or zip artifact
    \* cmd::execute and cmd::execute_with_output
    cmdPc,            \* "idle" | "spawn" | "stdout" | "stderr" | "wait" | "output" | "returned"
    function,         \* "execute" | "execute_with_output"
    script,           \* what the child has yet to write: a sequence of "out" | "err"
    script0,          \* history: everything the child writes
    exitStatus,       \* the status the child exits with
    childState,       \* "none" | "running" | "exited"
    pipes,            \* how many writes wait in the stdout and the stderr pipe
    captured,         \* the stderr text execute_with_output has collected
    cmdResult,        \* what the function returns: the error ("" when none) and its message
    \* customize_dmg_appearance
    custPc,           \* "idle" | "background" | "format" | "write" | "osascript" | "remove" | "done"
    custOutcome,      \* "" while running, "ok", "panic", or the error returned
    dmg,              \* manifest.dmg: None or Some(DmgConfig)
    bg_exists,        \* whether the background path of the plan names an existing file
    overflow_checks,  \* whether the build checks integer overflow
    volume,           \* the files customization has put on the mounted volume
    applescript       \* the script formatted: None or Some(script)

tplVars == <<tplPc, variables, input, order, k, result>>

mfVars == <<mfPc, platform, cli, cargo, files, extPath, package, emerge_config, plan, error>>

\* What the command line and the environment fix for the whole run.
argVars == <<archive_flag, dmg_flag, no_build, current_platform, manifest, out0, temp_dir0>>

buildVars == <<buildIdx, child, started, exited>>

fsVars == <<copyIdx, out, temp_dir, mounted, icon_dir>>

driverVars == <<mount_point, calls>>

runVars == <<pc, outcome, kind, argVars, buildVars, fsVars, driverVars, archive>>

cmdVars == <<cmdPc, function, script, script0, exitStatus, childState, pipes, captured, cmdResult>>

custVars == <<custPc, custOutcome, dmg, bg_exists, overflow_checks, volume, applescript>>

vars == <<tplVars, mfVars, runVars, cmdVars, custVars>>

\* ------------------------------------------------------------------------
\* SpecTpl: one call of Tpl::parse
\* ------------------------------------------------------------------------

TplIdle ==
    /\ tplPc = "idle"
    /\ variables = <<>>
    /\ input = <<>>
    /\ order = <<>>
    /\ k = 0
    /\ result = <<>>

\* No manifest resolution takes place.
MfIdle ==
    /\ mfPc = "idle"
    /\ platform = "linux"
    /\ cli = None
    /\ cargo = File("missing", None, None)
    /\ files = FileSystem(File("missing", None, None))
    /\ extPath = None
    /\ package = None
    /\ emerge_config = None
    /\ plan = None
    /\ error = ""

\* No run takes place.
RunIdle ==
    /\ pc = "idle"
    /\ outcome = ""
    /\ archive_flag = FALSE
    /\ dmg_flag = FALSE
    /\ no_build = FALSE
    /\ current_platform = "linux"
    /\ manifest = Plan(<<>>, <<>>, None, <<"App">>)
    /\ kind = ""
    /\ buildIdx = 1
    /\ child = None
    /\ started = <<>>
    /\ exited = <<>>
    /\ copyIdx = 1
    /\ out = OutputFolder(FALSE, "absent", "absent")
    /\ out0 = out
    /\ temp_dir = TempDir(FALSE, FALSE, {})
    /\ temp_dir0 = temp_dir
    /\ mounted = {}
    /\ icon_dir = FALSE
    /\ mount_point = None
    /\ calls = <<>>
    /\ archive = {}

\* No command is executed.
CmdIdle ==
    /\ cmdPc = "idle"
    /\ function = "execute"
    /\ script = <<>>
    /\ script0 = <<>>
    /\ exitStatus = 0
    /\ childState = "none"
    /\ pipes = [out |-> 0, err |-> 0]
    /\ captured = <<>>
    /\ cmdResult = [error |-> "", message |-> <<>>]

\* No disk image is customized.
CustIdle ==
    /\ custPc = "idle"
    /\ custOutcome = ""
    /\ dmg = None
    /\ bg_exists = FALSE
    /\ overflow_checks = FALSE
    /\ volume = {}
    /\ applescript = None

InitTpl ==
    /\ CustIdle
    /\ CmdIdle
    /\ tplPc = "call"
    /\ variables \in TplMappings
    /\ input \in TplTexts
    /\ order = <<>>
    /\ k = 0
    /\ result = <<>>
    /\ MfIdle
    /\ RunIdle

\* tpl.rs:22  let mut result = input.to_string(); the loop then takes the
\* keys in the map's order.
TplParseBegin ==
    /\ tplPc = "call"
    /\ result' = input
    /\ order' \in Perms(DOMAIN variables)
    /\ k' = 0
    /\ tplPc' = "loop"
    /\ UNCHANGED <<variables, input, mfVars, runVars, cmdVars, custVars>>

\* tpl.rs:24-27  one turn of the loop
TplParseStep ==
    /\ tplPc = "loop"
    /\ k < Len(order)
    /\ result' = ParseKey(result, order[k + 1], variables[order[k + 1]])
    /\ k' = k + 1
    /\ UNCHANGED <<tplPc, variables, input, order, mfVars, runVars, cmdVars, custVars>>

\* tpl.rs:29  result
TplParseReturn ==
    /\ tplPc = "loop"
    /\ k = Len(order)
    /\ tplPc' = "done"
    /\ UNCHANGED <<variables, input, order, k, result, mfVars, runVars, cmdVars, custVars>>

NextTpl ==
    \/ TplParseBegin
    \/ TplParseStep
    \/ TplParseReturn

SpecTpl == InitTpl /\ [][NextTpl]_vars

\* ------------------------------------------------------------------------
\* SpecManifest: one manifest resolution (main.rs:97-116, manifest.rs)
\* ------------------------------------------------------------------------

\* The layering is varied: what the primary file and "ext.toml" hold, and
\* whether --manifest is given.  Every package has a name and a version.
InitLayering ==
    /\ cli \in Redirects
    /\ cargo \in PrimaryFiles({RawString(<<"p", "a", "p", "p">>)}, {RawString(<<"1">>)},
                              LayeringSets)
    /\ \E ext \in ExternalFiles({RawString(<<"x", "a", "p", "p">>)}, {RawString(<<"2">>)},
                                LayeringSets) :
          files = FileSystem(ext)
    /\ platform = "macos"

\* The identity is varied: name and version of the primary package and of
\* the package of "ext.toml" are strings, empty strings or workspace tables.
InitIdentity ==
    /\ cli = None
    /\ cargo \in {f \in PrimaryFiles(RawNames("p"), RawVersions, {Directives}) :
                    f.kind = "cargo" /\ f.workspace_manifest = None}
    /\ \E ext \in ExternalFiles(RawNames("x"), RawVersions, {Directives}) :
          /\ ext.kind = "cargo"
          /\ files = FileSystem(ext)
    /\ platform = "windows"

\* The directives are varied: the primary file's block redirects to
\* "ext.toml", and each of the two blocks sets any subset of the directives.
InitDirectives ==
    /\ cli = None
    /\ \E set \in SUBSET Directives :
          cargo = File("cargo",
                       Some(RawPackage(RawString(<<"p", "a", "p", "p">>), RawString(<<"1">>),
                                       Some(ConfigOf("e", set, Some("ext.toml"))))),
                       None)
    /\ \E set \in SUBSET Directives :
          files = FileSystem(
                    File("cargo",
                         Some(RawPackage(RawString(<<"x", "a", "p", "p">>), RawString(<<"2">>),
                                         Some(ConfigOf("x", set, None)))),
                         None))
    /\ platform = "linux"

\* The copy list and the filename are varied, on every platform.
InitCopies ==
    /\ cli = None
    /\ \E copy \in CopySamples, set \in {{}, {"filename"}, {"filename", "title"}} :
          cargo = File("cargo",
                       Some(RawPackage(RawString(<<"p", "a", "p", "p">>), RawString(<<"1">>),
                                       Some([ConfigOf("e", set, None) EXCEPT !.copy = copy]))),
                       None)
    /\ files = FileSystem(File("cargo", None, None))
    /\ platform \in Platforms

InitManifest ==
    /\ CustIdle
    /\ CmdIdle
    /\ TplIdle
    /\ RunIdle
    /\ mfPc = "start"
    /\ extPath = None
    /\ package = None
    /\ emerge_config = None
    /\ plan = None
    /\ error = ""
    /\ (InitLayering \/ InitIdentity \/ InitDirectives \/ InitCopies)

\* The resolver goes on as `to` says.
MfGoto(to) ==
    /\ mfPc' = to.pc
    /\ extPath' = IF to.pc = "load_ext" THEN to.path ELSE extPath
    /\ package' = to.package
    /\ emerge_config' = to.emerge
    /\ error' = to.error
    /\ UNCHANGED <<platform, cli, cargo, files, plan, tplVars, runVars, cmdVars, custVars>>

\* main.rs:101-105  --manifest given: load_with_emerge_manifest, else load
MfStart ==
    /\ mfPc = "start"
    /\ MfGoto(IF IsSome(cli) THEN Goto("load_ext", cli, None, None, "")
              ELSE Goto("load", None, None, None, ""))

\* Manifest::load
MfLoad ==
    /\ mfPc = "load"
    /\ MfGoto(Load(cargo))

\* Manifest::load_with_emerge_manifest
MfLoadWithEmergeManifest ==
    /\ mfPc = "load_ext"
    /\ MfGoto(LoadWithEmergeManifest(files[Unwrap(extPath)]))

\* Manifest::process_manifest
MfProcessManifest ==
    /\ mfPc = "process"
    /\ \E tplOrder \in Perms({NAME, VERSION, PLATFORM}),
          copy \in IterationOrders(Unwrap(emerge_config).copy) :
          plan' = Some(ProcessManifest(BaseDir, PlatformString(platform), Unwrap(package),
                                       [Unwrap(emerge_config) EXCEPT !.copy = copy], tplOrder))
    /\ mfPc' = "ok"
    /\ UNCHANGED <<platform, cli, cargo, files, extPath, package, emerge_config, error, tplVars, runVars, cmdVars, custVars>>

NextManifest ==
    \/ MfStart
    \/ MfLoad
    \/ MfLoadWithEmergeManifest
    \/ MfProcessManifest

SpecManifest == InitManifest /\ [][NextManifest]_vars

\* ------------------------------------------------------------------------
\* Specification of the run: main.rs run() with the drivers it calls
\* ------------------------------------------------------------------------

\* The output folder before the run: missing, or present with or without
\* an artifact and an intermediate image of an earlier run.
OutputFolders ==
    {OutputFolder(FALSE, "absent", "absent")}
        \cup {OutputFolder(TRUE, a, t) : a \in {"absent", "old"}, t \in {"absent", "old"}}

\* The staging directory before the run: missing, or left by an earlier run.
TempDirs == {TempDir(FALSE, FALSE, {}), TempDir(TRUE, TRUE, {Leftover})}

\* Runs that vary the build commands and --no-build.
InitBuilds ==
    /\ manifest \in BuildPlans
    /\ no_build \in BOOLEAN
    /\ archive_flag \in BOOLEAN
    /\ dmg_flag = FALSE
    /\ current_platform \in Platforms
    /\ out = OutputFolder(FALSE, "absent", "absent")
    /\ temp_dir = TempDir(FALSE, FALSE, {})
    /\ icon_dir = FALSE
    /\ mounted = {}

\* Runs that vary the copy operations, the icon, the flags and what earlier
\* runs left behind.
InitStaging ==
    /\ manifest \in {m \in StagingPlans : m.build_commands = <<>>}
    /\ no_build = FALSE
    /\ archive_flag \in BOOLEAN
    /\ dmg_flag \in BOOLEAN
    /\ current_platform \in Platforms
    /\ out \in OutputFolders
    /\ temp_dir \in TempDirs
    /\ icon_dir \in BOOLEAN
    /\ mounted = {}

\* Runs of the disk-image driver that vary the title, the icon and whether
\* a foreign volume is mounted.
InitVolumes ==
    /\ manifest \in VolumePlans
    /\ no_build = FALSE
    /\ archive_flag = FALSE
    /\ dmg_flag \in BOOLEAN
    /\ current_platform = "macos"
    /\ out = OutputFolder(TRUE, "absent", "absent")
    /\ temp_dir = TempDir(FALSE, FALSE, {})
    /\ icon_dir = FALSE
    /\ mounted \in {{}, {"foreign"}}

\* Runs that vary the destinations of the copy operations.
InitDestinations ==
    /\ manifest \in DestinationPlans
    /\ no_build = FALSE
    /\ archive_flag \in BOOLEAN
    /\ dmg_flag = FALSE
    /\ current_platform \in Platforms
    /\ out = OutputFolder(TRUE, "absent", "absent")
    /\ temp_dir = TempDir(FALSE, FALSE, {})
    /\ icon_dir = FALSE
    /\ mounted = {}

\* Runs that vary the files staged and what an earlier run left in the
\* staging directory.
InitTrees ==
    /\ manifest \in TreePlans
    /\ no_build = FALSE
    /\ archive_flag \in BOOLEAN
    /\ dmg_flag = FALSE
    /\ current_platform \in Platforms
    /\ out = OutputFolder(TRUE, "absent", "absent")
    /\ temp_dir \in TempDirs
    /\ icon_dir = FALSE
    /\ mounted = {}

Init ==
    /\ CustIdle
    /\ CmdIdle
    /\ TplIdle
    /\ MfIdle
    /\ pc = "load"
    /\ outcome = ""
    /\ kind = ""
    /\ buildIdx = 1
    /\ child = None
    /\ started = <<>>
    /\ exited = <<>>
    /\ copyIdx = 1
    /\ mount_point = None
    /\ calls = <<>>
    /\ archive = {}
    /\ (InitBuilds \/ InitStaging \/ InitVolumes \/ InitDestinations \/ InitTrees)
    /\ out0 = out
    /\ temp_dir0 = temp_dir

\* run() is at the step `at` and has not returned.
Running(at) == pc = at /\ outcome = ""

\* The step completes; run() goes on with the step `to`.
Step(to) == pc' = to /\ outcome' = outcome

\* The step fails; `?` makes run() return the error.
Fail(e) == pc' = pc /\ outcome' = e

\* error.rs  the errors Manifest::load and load_with_emerge_manifest return
LoadErrors == {"Io", "Toml", "ManifestNotFound", "InvalidManifest"}

\* cmd.rs:12-16, 39-48, 59-70  a tool cannot be spawned, or exits with a
\* status other than success
ToolErrors == {"Io", "CommandFailed"}

\* main.rs:95-116  intro and manifest load
RunLoad ==
    /\ Running("load")
    /\ \/ Step("build")
       \/ \E e \in LoadErrors : Fail(e)
    /\ UNCHANGED <<kind, argVars, buildVars, fsVars, driverVars, archive, tplVars, mfVars, cmdVars, custVars>>

\* main.rs:119, 123 (loop exit), 139  nothing (more) to build
RunBuildDone ==
    /\ Running("build")
    /\ no_build \/ buildIdx > Len(manifest.build_commands)
    /\ Step("dispatch")
    /\ UNCHANGED <<kind, argVars, buildVars, fsVars, driverVars, archive, tplVars, mfVars, cmdVars, custVars>>

\* main.rs:128-131  a command without words is passed over
RunBuildSkipBlank ==
    /\ Running("build")
    /\ ~no_build
    /\ buildIdx <= Len(manifest.build_commands)
    /\ manifest.build_commands[buildIdx] = <<>>
    /\ buildIdx' = buildIdx + 1
    /\ Step("build")
    /\ UNCHANGED <<kind, argVars, child, started, exited, fsVars, driverVars, archive, tplVars, mfVars, cmdVars, custVars>>

\* main.rs:133-136, cmd.rs:13-17  execute: spawn the child
RunBuildSpawn ==
    /\ Running("build")
    /\ ~no_build
    /\ buildIdx <= Len(manifest.build_commands)
    /\ manifest.build_commands[buildIdx] # <<>>
    /\ \/ /\ child' = Some(buildIdx)
          /\ started' = Append(started, buildIdx)
          /\ Step("wait")
       \/ /\ Fail("Io")
          /\ UNCHANGED <<child, started>>
    /\ UNCHANGED <<kind, argVars, buildIdx, exited, fsVars, driverVars, archive, tplVars, mfVars, cmdVars, custVars>>

\* cmd.rs:19-50  execute: drain the pipes, wait for the child, look at its
\* status
RunBuildWait ==
    /\ Running("wait")
    /\ \E status \in {0, 1} :
        /\ child' = None
        /\ exited' = Append(exited, status)
        /\ IF ExitOutcome(status) = ""
           THEN buildIdx' = buildIdx + 1 /\ Step("build")
           ELSE buildIdx' = buildIdx /\ Fail(ExitOutcome(status))
    /\ UNCHANGED <<kind, argVars, started, fsVars, driverVars, archive, tplVars, mfVars, cmdVars, custVars>>

\* main.rs:143-181  choose the driver
RunDispatch ==
    /\ Running("dispatch")
    /\ kind' = Dispatch(archive_flag, dmg_flag, current_platform)
    /\ Step(IF kind' = "none" THEN "cancel" ELSE "ensure_dir")
    /\ UNCHANGED <<argVars, buildVars, fsVars, driverVars, archive, tplVars, mfVars, cmdVars, custVars>>

\* main.rs:150-153  a disk image asked for elsewhere than on macOS
RunCancel ==
    /\ Running("cancel")
    /\ \/ pc' = "done" /\ outcome' = "ok"
       \/ Fail("Io")
    /\ UNCHANGED <<kind, argVars, buildVars, fsVars, driverVars, archive, tplVars, mfVars, cmdVars, custVars>>

\* utils.rs:54-59 at linux/archive.rs:15, windows/archive.rs:17, dmg.rs:16
\* create_dir_all can only fail when the folder is missing
StageEnsureDir ==
    /\ Running("ensure_dir")
    /\ \/ /\ out' = [out EXCEPT !.exists = TRUE]
          /\ Step("temp_dir")
       \/ /\ ~out.exists
          /\ Fail("Io")
          /\ UNCHANGED out
    /\ UNCHANGED <<kind, argVars, buildVars, copyIdx, temp_dir, mounted, icon_dir, driverVars, archive, tplVars, mfVars, cmdVars, custVars>>

\* linux/archive.rs:18-26, windows/archive.rs:20-28, dmg.rs:19-23
\* wipe what is there and create the staging directory anew
StageTempDir ==
    /\ Running("temp_dir")
    /\ \/ /\ temp_dir' = Wipe(temp_dir)
          /\ Step(IF kind = "dmg" THEN "bundle" ELSE "copy")
       \/ /\ temp_dir' \in {temp_dir, TempDir(FALSE, FALSE, {})}
          /\ Fail("Io")
    /\ UNCHANGED <<kind, argVars, buildVars, copyIdx, out, mounted, icon_dir, driverVars, archive, tplVars, mfVars, cmdVars, custVars>>

\* linux/archive.rs:28-58, windows/archive.rs:30-43, dmg.rs:33-68
\* one round of the loop over copy_operations, or its end
StageCopy ==
    /\ Running("copy")
    /\ \/ /\ copyIdx > Len(manifest.copy_operations)
          /\ Step(IF kind = "dmg" THEN "symlink" ELSE "create_file")
          /\ UNCHANGED <<copyIdx, temp_dir>>
       \/ /\ copyIdx <= Len(manifest.copy_operations)
          /\ LET op == manifest.copy_operations[copyIdx]
             IN  IF CopyRecursively(op.src) = ""
                 THEN \/ /\ ~Conflicts(temp_dir.staged, kind, op)
                         /\ temp_dir' = [temp_dir EXCEPT !.staged = StageOne(@, kind, op)]
                         /\ copyIdx' = copyIdx + 1
                         /\ Step("copy")
                      \/ /\ Fail("Io")
                         /\ UNCHANGED <<copyIdx, temp_dir>>
                 ELSE /\ Fail(CopyRecursively(op.src))
                      /\ UNCHANGED <<copyIdx, temp_dir>>
    /\ UNCHANGED <<kind, argVars, buildVars, out, mounted, icon_dir, driverVars, archive, tplVars, mfVars, cmdVars, custVars>>

\* linux/archive.rs:74 create_tar_gz_file, windows/archive.rs:60
\* create_zip_file: File::create creates or truncates the artifact
ArchiveCreateFile ==
    /\ Running("create_file")
    /\ \/ /\ out' = [out EXCEPT !.artifact = "partial"]
          /\ Step("write")
       \/ /\ Fail("Io")
          /\ UNCHANGED out
    /\ UNCHANGED <<kind, argVars, buildVars, copyIdx, temp_dir, mounted, icon_dir, driverVars, archive, tplVars, mfVars, cmdVars, custVars>>

\* linux/archive.rs:75-79, windows/archive.rs:61-84  write the entries and
\* finish the archive
\*   tar: append_dir_all adds every file of the staging directory or fails
\*   zip: the walk drops the entries it could not read (filter_map of ok())
\*        and adds the others
ArchiveWrite ==
    /\ Running("write")
    /\ \/ /\ out' = [out EXCEPT !.artifact = "new"]
          /\ \E unread \in {{}} \cup {{f} : f \in InStaging(temp_dir.staged)} :
                /\ kind = "tar.gz" => unread = {}
                /\ archive' = Entries(kind, InStaging(temp_dir.staged) \ unread)
          /\ Step("cleanup")
       \/ /\ Fail("Io")
          /\ UNCHANGED <<out, archive>>
    /\ UNCHANGED <<kind, argVars, buildVars, copyIdx, temp_dir, mounted, icon_dir, driverVars, tplVars, mfVars, cmdVars, custVars>>

\* linux/archive.rs:67, windows/archive.rs:53, dmg.rs:89
StageCleanup ==
    /\ Running("cleanup")
    /\ \/ /\ temp_dir' = TempDir(FALSE, FALSE, {})
          /\ Step("outro")
       \/ /\ Fail("Io")
          /\ UNCHANGED temp_dir
    /\ UNCHANGED <<kind, argVars, buildVars, copyIdx, out, mounted, icon_dir, driverVars, archive, tplVars, mfVars, cmdVars, custVars>>

\* main.rs:183-184
RunOutro ==
    /\ Running("outro")
    /\ \/ pc' = "done" /\ outcome' = "ok"
       \/ Fail("Io")
    /\ UNCHANGED <<kind, argVars, buildVars, fsVars, driverVars, archive, tplVars, mfVars, cmdVars, custVars>>

\* dmg.rs:95-109  create_app_bundle_structure: the bundle's folders and
\* Info.plist
DmgBundle ==
    /\ Running("bundle")
    /\ \/ Step("process_icon")
       \/ Fail("Io")
    /\ UNCHANGED <<kind, argVars, buildVars, fsVars, driverVars, archive, tplVars, mfVars, cmdVars, custVars>>

\* dmg.rs:111-116, 167-237  create_app_bundle_structure: the icon, when the
\* plan has one, is copied or converted into the bundle
DmgProcessIcon ==
    /\ Running("process_icon")
    /\ \/ /\ manifest.icon = None
          /\ Step("copy")
       \/ /\ IsSome(manifest.icon)
          /\ ProcessIcon(Unwrap(manifest.icon)) = ""
          /\ (Step("copy") \/ Fail("Io"))
       \/ /\ IsSome(manifest.icon)
          /\ ProcessIcon(Unwrap(manifest.icon)) # ""
          /\ Fail(ProcessIcon(Unwrap(manifest.icon)))
    /\ UNCHANGED <<kind, argVars, buildVars, fsVars, driverVars, archive, tplVars, mfVars, cmdVars, custVars>>

\* dmg.rs:71-76  the link to /Applications
DmgSymlink ==
    /\ Running("symlink")
    /\ \/ Step("remove_old")
       \/ Fail("Io")
    /\ UNCHANGED <<kind, argVars, buildVars, fsVars, driverVars, archive, tplVars, mfVars, cmdVars, custVars>>

\* dmg.rs:79-84  an image already at the artifact path is removed
DmgRemoveOld ==
    /\ Running("remove_old")
    /\ \/ /\ out' = [out EXCEPT !.artifact = "absent"]
          /\ Step("hdi_create")
       \/ /\ out.artifact # "absent"
          /\ Fail("Io")
          /\ UNCHANGED out
    /\ UNCHANGED <<kind, argVars, buildVars, copyIdx, temp_dir, mounted, icon_dir, driverVars, archive, tplVars, mfVars, cmdVars, custVars>>

\* The step `step`, given or capturing `path`, is added to the history with
\* how it ended.
Logged(step, path, end) == calls' = Append(calls, Call(step, path, end))

\* dmg.rs:241-264  hdiutil create writes the read/write image beside the
\* artifact; what a failing hdiutil leaves there is not known
DmgCreate ==
    /\ Running("hdi_create")
    /\ \E r \in ToolResults :
        /\ Logged("create", <<>>, r)
        /\ IF ToolOutcome(r) = ""
           THEN /\ out' = [out EXCEPT !.temp_dmg = "new"]
                /\ Step("attach")
           ELSE /\ out' \in {out, [out EXCEPT !.temp_dmg = "new"]}
                /\ Fail(ToolOutcome(r))
    /\ UNCHANGED <<kind, argVars, buildVars, copyIdx, temp_dir, mounted, icon_dir, mount_point, archive, tplVars, mfVars, cmdVars, custVars>>

\* dmg.rs:271-287  hdiutil attach, then the mount point is looked for in
\* its output
DmgAttach ==
    /\ Running("attach")
    /\ \E r \in ToolResults :
        IF ToolOutcome(r) = ""
        THEN \E lines \in AttachOutputs(manifest.title) :
                /\ mounted' = mounted \cup {"temp_dmg"}
                /\ mount_point' = MountPointOfAttach(lines)
                /\ IF IsSome(mount_point')
                   THEN Logged("attach", Unwrap(mount_point'), r) /\ Step("customize")
                   ELSE Logged("attach", <<>>, "parse") /\ Fail("Custom")
        ELSE /\ Logged("attach", <<>>, r)
             /\ Fail(ToolOutcome(r))
             /\ UNCHANGED <<mounted, mount_point>>
    /\ UNCHANGED <<kind, argVars, buildVars, copyIdx, out, temp_dir, icon_dir, archive, tplVars, mfVars, cmdVars, custVars>>

\* dmg.rs:346-425  customize_dmg_appearance: the script is written into the
\* directory at the captured mount point and run by osascript
DmgCustomize ==
    /\ Running("customize")
    /\ IF AttachedAt(mounted, Unwrap(mount_point), manifest.title) = {}
       THEN /\ Logged("customize", Unwrap(mount_point), "io")
            /\ Fail("Io")
       ELSE \E r \in ToolResults :
                /\ Logged("customize", Unwrap(mount_point), r)
                /\ IF ToolOutcome(r) = "" THEN Step("sync") ELSE Fail(ToolOutcome(r))
    /\ UNCHANGED <<kind, argVars, buildVars, fsVars, mount_point, archive, tplVars, mfVars, cmdVars, custVars>>

\* dmg.rs:302-305  sync and settle
DmgSync ==
    /\ Running("sync")
    /\ \E r \in ToolResults :
        /\ Logged("sync", <<>>, r)
        /\ IF ToolOutcome(r) = "" THEN Step("detach") ELSE Fail(ToolOutcome(r))
    /\ UNCHANGED <<kind, argVars, buildVars, fsVars, mount_point, archive, tplVars, mfVars, cmdVars, custVars>>

\* How hdiutil detach <path> may end: not with success when nothing is
\* mounted at the path.
DetachResults(path) ==
    IF AttachedAt(mounted, path, manifest.title) = {} THEN ToolResults \ {"ok"} ELSE ToolResults

\* dmg.rs:312  hdiutil detach of the captured mount point
DmgDetach ==
    /\ Running("detach")
    /\ \E r \in DetachResults(Unwrap(mount_point)) :
        /\ Logged("detach", Unwrap(mount_point), r)
        /\ IF ToolOutcome(r) = ""
           THEN /\ mounted' = Detach(mounted, Unwrap(mount_point), manifest.title)
                /\ Step("convert")
           ELSE /\ Fail(ToolOutcome(r))
                /\ UNCHANGED mounted
    /\ UNCHANGED <<kind, argVars, buildVars, copyIdx, out, temp_dir, icon_dir, mount_point, archive, tplVars, mfVars, cmdVars, custVars>>

\* How hdiutil convert may end: not with success while the read/write
\* image is still attached.
ConvertResults == IF "temp_dmg" \in mounted THEN ToolResults \ {"ok"} ELSE ToolResults

\* dmg.rs:319-338  hdiutil convert writes the artifact; what a failing
\* hdiutil leaves at the artifact path is not known
DmgConvert ==
    /\ Running("convert")
    /\ \E r \in ConvertResults :
        /\ Logged("convert", <<>>, r)
        /\ IF ToolOutcome(r) = ""
           THEN /\ out' = [out EXCEPT !.artifact = "new"]
                /\ Step(IF IsSome(manifest.icon) /\ Unwrap(manifest.icon).exists
                        THEN "icon_prepare" ELSE "remove_temp_dmg")
           ELSE /\ out' \in {out, [out EXCEPT !.artifact = "partial"]}
                /\ Fail(ToolOutcome(r))
    /\ UNCHANGED <<kind, argVars, buildVars, copyIdx, temp_dir, mounted, icon_dir, mount_point, archive, tplVars, mfVars, cmdVars, custVars>>

\* dmg.rs:436-453  configure_icon: its temporary directory and the icon
\* as .icns
IconPrepare ==
    /\ Running("icon_prepare")
    /\ \/ /\ ProcessIcon(Unwrap(manifest.icon)) = ""
          /\ icon_dir' = TRUE
          /\ Logged("icon_prepare", <<>>, "ok")
          /\ Step("icon_attach")
       \/ /\ ProcessIcon(Unwrap(manifest.icon)) # ""
          /\ icon_dir' = TRUE
          /\ Logged("icon_prepare", <<>>, "image")
          /\ Fail(ProcessIcon(Unwrap(manifest.icon)))
       \/ /\ icon_dir' \in {icon_dir, FALSE, TRUE}
          /\ Logged("icon_prepare", <<>>, "io")
          /\ Fail("Io")
    /\ UNCHANGED <<kind, argVars, buildVars, copyIdx, out, temp_dir, mounted, mount_point, archive, tplVars, mfVars, cmdVars, custVars>>

\* dmg.rs:456-467  configure_icon: attach the artifact, then the mount
\* point is looked for in the output
IconAttach ==
    /\ Running("icon_attach")
    /\ \E r \in ToolResults :
        IF ToolOutcome(r) = ""
        THEN \E lines \in AttachOutputs(manifest.title) :
                /\ mounted' = mounted \cup {"dmg"}
                /\ mount_point' = MountPointOfIconAttach(lines)
                /\ IF IsSome(mount_point')
                   THEN Logged("icon_attach", Unwrap(mount_point'), r) /\ Step("icon_set")
                   ELSE Logged("icon_attach", <<>>, "parse") /\ Fail("Custom")
        ELSE /\ Logged("icon_attach", <<>>, r)
             /\ Fail(ToolOutcome(r))
             /\ UNCHANGED <<mounted, mount_point>>
    /\ UNCHANGED <<kind, argVars, buildVars, copyIdx, out, temp_dir, icon_dir, archive, tplVars, mfVars, cmdVars, custVars>>

\* dmg.rs:476-489  configure_icon: .VolumeIcon.icns is copied to the
\* captured mount point, then SetFile and sync
IconSet ==
    /\ Running("icon_set")
    /\ IF AttachedAt(mounted, Unwrap(mount_point), manifest.title) = {}
       THEN /\ Logged("icon_set", Unwrap(mount_point), "io")
            /\ Fail("Io")
       ELSE \E r \in ToolResults :
                /\ Logged("icon_set", Unwrap(mount_point), r)
                /\ IF ToolOutcome(r) = "" THEN Step("icon_detach") ELSE Fail(ToolOutcome(r))
    /\ UNCHANGED <<kind, argVars, buildVars, fsVars, mount_point, archive, tplVars, mfVars, cmdVars, custVars>>

\* dmg.rs:492  configure_icon: detach the captured mount point
IconDetach ==
    /\ Running("icon_detach")
    /\ \E r \in DetachResults(Unwrap(mount_point)) :
        /\ Logged("icon_detach", Unwrap(mount_point), r)
        /\ IF ToolOutcome(r) = ""
           THEN /\ mounted' = Detach(mounted, Unwrap(mount_point), manifest.title)
                /\ Step("icon_cleanup")
           ELSE /\ Fail(ToolOutcome(r))
                /\ UNCHANGED mounted
    /\ UNCHANGED <<kind, argVars, buildVars, copyIdx, out, temp_dir, icon_dir, mount_point, archive, tplVars, mfVars, cmdVars, custVars>>

\* dmg.rs:495  configure_icon: remove its temporary directory
IconCleanup ==
    /\ Running("icon_cleanup")
    /\ \/ /\ icon_dir' = FALSE
          /\ Logged("icon_cleanup", <<>>, "ok")
          /\ Step("remove_temp_dmg")
       \/ /\ Logged("icon_cleanup", <<>>, "io")
          /\ Fail("Io")
          /\ UNCHANGED icon_dir
    /\ UNCHANGED <<kind, argVars, buildVars, copyIdx, out, temp_dir, mounted, mount_point, archive, tplVars, mfVars, cmdVars, custVars>>

\* dmg.rs:341  the read/write image is removed
DmgRemoveTemp ==
    /\ Running("remove_temp_dmg")
    /\ \/ /\ out' = [out EXCEPT !.temp_dmg = "absent"]
          /\ Step("cleanup")
       \/ /\ Fail("Io")
          /\ UNCHANGED out
    /\ UNCHANGED <<kind, argVars, buildVars, copyIdx, temp_dir, mounted, icon_dir, driverVars, archive, tplVars, mfVars, cmdVars, custVars>>

Next ==
    \/ RunLoad
    \/ RunBuildDone
    \/ RunBuildSkipBlank
    \/ RunBuildSpawn
    \/ RunBuildWait
    \/ RunDispatch
    \/ RunCancel
    \/ StageEnsureDir
    \/ StageTempDir
    \/ DmgBundle
    \/ DmgProcessIcon
    \/ StageCopy
    \/ ArchiveCreateFile
    \/ ArchiveWrite
    \/ DmgSymlink
    \/ DmgRemoveOld
    \/ DmgCreate
    \/ DmgAttach
    \/ DmgCustomize
    \/ DmgSync
    \/ DmgDetach
    \/ DmgConvert
    \/ IconPrepare
    \/ IconAttach
    \/ IconSet
    \/ IconDetach
    \/ IconCleanup
    \/ DmgRemoveTemp
    \/ StageCleanup
    \/ RunOutro

Spec == Init /\ [][Next]_vars


\* ------------------------------------------------------------------------
\* Specification of command execution: cmd.rs execute and
\* execute_with_output, with the child process and its two pipes
\* ------------------------------------------------------------------------

\* The text of `n` writes to stderr, as tokens.
StderrText(n) == [i \in 1..n |-> "e"]

\* status.code() as it is displayed.
Code(st) == IF st = 0 THEN "0" ELSE "1"

\* cmd.rs:42-47  execute: "{program} {args} failed with exit code: {code}"
ExecuteMessage(st) == <<"tool", "arg", "failed", "with", "exit", "code:", Code(st)>>

\* cmd.rs:62-68  execute_with_output: "{program} {args} failed: {stderr}"
OutputMessage(stderr) == <<"tool", "arg", "failed:">> \o stderr

CmdResult(e, message) == [error |-> e, message |-> message]

InitCmd ==
    /\ CustIdle
    /\ TplIdle
    /\ MfIdle
    /\ RunIdle
    /\ cmdPc = "spawn"
    /\ function \in {"execute", "execute_with_output"}
    /\ script \in SeqsUpTo({"out", "err"}, MaxWrites)
    /\ script0 = script
    /\ exitStatus \in {0, 1}
    /\ childState = "none"
    /\ pipes = [out |-> 0, err |-> 0]
    /\ captured = <<>>
    /\ cmdResult = CmdResult("", <<>>)

\* cmd.rs:13-17 spawn with both streams piped; cmd.rs:59 output
CmdSpawn ==
    /\ cmdPc = "spawn"
    /\ \/ /\ childState' = "running"
          /\ cmdPc' = IF function = "execute" THEN "stdout" ELSE "output"
          /\ UNCHANGED cmdResult
       \/ /\ cmdPc' = "returned"
          /\ cmdResult' = CmdResult("Io", <<>>)
          /\ UNCHANGED childState
    /\ UNCHANGED <<function, script, script0, exitStatus, pipes, captured, tplVars, mfVars, runVars, custVars>>

\* The child writes to one of its streams; the write blocks while the
\* pipe is full.
ChildWrite ==
    /\ childState = "running"
    /\ script # <<>>
    /\ pipes[Head(script)] < PipeCap
    /\ pipes' = [pipes EXCEPT ![Head(script)] = @ + 1]
    /\ script' = Tail(script)
    /\ UNCHANGED <<cmdPc, function, script0, exitStatus, childState, captured, cmdResult,
                   tplVars, mfVars, runVars, custVars>>

\* The child has written everything and exits, which closes its ends of
\* the pipes.
ChildExit ==
    /\ childState = "running"
    /\ script = <<>>
    /\ childState' = "exited"
    /\ UNCHANGED <<cmdPc, function, script, script0, exitStatus, pipes, captured, cmdResult,
                   tplVars, mfVars, runVars, custVars>>

\* cmd.rs:20-27  execute: a line of stdout is read
ExecReadStdout ==
    /\ cmdPc = "stdout"
    /\ pipes.out > 0
    /\ pipes' = [pipes EXCEPT !.out = @ - 1]
    /\ UNCHANGED <<cmdPc, function, script, script0, exitStatus, childState, captured, cmdResult,
                   tplVars, mfVars, runVars, custVars>>

\* cmd.rs:20-27  execute: stdout is at its end, the loop over its lines is
\* left
ExecStdoutEof ==
    /\ cmdPc = "stdout"
    /\ pipes.out = 0
    /\ childState = "exited"
    /\ cmdPc' = "stderr"
    /\ UNCHANGED <<function, script, script0, exitStatus, childState, pipes, captured, cmdResult,
                   tplVars, mfVars, runVars, custVars>>

\* cmd.rs:30-37  execute: a line of stderr is read and, at most, echoed
ExecReadStderr ==
    /\ cmdPc = "stderr"
    /\ pipes.err > 0
    /\ pipes' = [pipes EXCEPT !.err = @ - 1]
    /\ UNCHANGED <<cmdPc, function, script, script0, exitStatus, childState, captured, cmdResult,
                   tplVars, mfVars, runVars, custVars>>

\* cmd.rs:30-37  execute: stderr is at its end
ExecStderrEof ==
    /\ cmdPc = "stderr"
    /\ pipes.err = 0
    /\ childState = "exited"
    /\ cmdPc' = "wait"
    /\ UNCHANGED <<function, script, script0, exitStatus, childState, pipes, captured, cmdResult,
                   tplVars, mfVars, runVars, custVars>>

\* cmd.rs:39-50  execute: wait for the child and look at its exitStatus
ExecWait ==
    /\ cmdPc = "wait"
    /\ childState = "exited"
    /\ cmdPc' = "returned"
    /\ cmdResult' = IF ExitOutcome(exitStatus) = "" THEN CmdResult("", <<>>)
                    ELSE CmdResult(ExitOutcome(exitStatus), ExecuteMessage(exitStatus))
    /\ UNCHANGED <<function, script, script0, exitStatus, childState, pipes, captured,
                   tplVars, mfVars, runVars, custVars>>

\* cmd.rs:59  execute_with_output: Command::output reads whichever stream
\* has something and collects it
OutputRead ==
    /\ cmdPc = "output"
    /\ \E stream \in {"out", "err"} :
        /\ pipes[stream] > 0
        /\ pipes' = [pipes EXCEPT ![stream] = @ - 1]
        /\ captured' = IF stream = "err" THEN Append(captured, "e") ELSE captured
    /\ UNCHANGED <<cmdPc, function, script, script0, exitStatus, childState, cmdResult,
                   tplVars, mfVars, runVars, custVars>>

\* cmd.rs:59-71  execute_with_output: both streams are at their end, the
\* child's exitStatus is looked at
OutputReturn ==
    /\ cmdPc = "output"
    /\ pipes = [out |-> 0, err |-> 0]
    /\ childState = "exited"
    /\ cmdPc' = "returned"
    /\ cmdResult' = IF ExitOutcome(exitStatus) = "" THEN CmdResult("", <<>>)
                    ELSE CmdResult(ExitOutcome(exitStatus), OutputMessage(captured))
    /\ UNCHANGED <<function, script, script0, exitStatus, childState, pipes, captured,
                   tplVars, mfVars, runVars, custVars>>

NextCmd ==
    \/ CmdSpawn
    \/ ChildWrite
    \/ ChildExit
    \/ ExecReadStdout
    \/ ExecStdoutEof
    \/ ExecReadStderr
    \/ ExecStderrEof
    \/ ExecWait
    \/ OutputRead
    \/ OutputReturn

SpecCmd == InitCmd /\ [][NextCmd]_vars

\* ------------------------------------------------------------------------
\* SpecCustomize: one call of customize_dmg_appearance on a mounted volume
\* ------------------------------------------------------------------------

InitCustomize ==
    /\ TplIdle
    /\ MfIdle
    /\ RunIdle
    /\ CmdIdle
    /\ custPc = "background"
    /\ custOutcome = ""
    /\ dmg \in DmgConfigs
    /\ bg_exists \in BOOLEAN
    /\ overflow_checks \in BOOLEAN
    /\ volume = {}
    /\ applescript = None

Customizing(at) == custPc = at /\ custOutcome = ""

\* The background named by the plan is copied to the volume when its source
\* exists; creating the folder or copying can fail.
CustBackground ==
    /\ Customizing("background")
    /\ IF HasBackground(dmg) /\ bg_exists
       THEN \E r \in {"ok", "Io"} :
              IF r = "ok"
              THEN /\ volume' = volume \cup {BackgroundFile}
                   /\ custPc' = "format"
                   /\ custOutcome' = custOutcome
              ELSE /\ custOutcome' = "Io"
                   /\ UNCHANGED <<custPc, volume>>
       ELSE /\ custPc' = "format"
            /\ UNCHANGED <<custOutcome, volume>>
    /\ UNCHANGED <<dmg, bg_exists, overflow_checks, applescript,
                   tplVars, mfVars, runVars, cmdVars>>

\* format!: the script text is built from the plan.
CustFormat ==
    /\ Customizing("format")
    /\ IF AppleScript(dmg, overflow_checks) = None
       THEN /\ custOutcome' = "panic"
            /\ UNCHANGED <<custPc, applescript>>
       ELSE /\ applescript' = AppleScript(dmg, overflow_checks)
            /\ custPc' = "write"
            /\ custOutcome' = custOutcome
    /\ UNCHANGED <<dmg, bg_exists, overflow_checks, volume,
                   tplVars, mfVars, runVars, cmdVars>>

\* fs::write of the script onto the volume.
CustWrite ==
    /\ Customizing("write")
    /\ \E r \in {"ok", "Io"} :
         IF r = "ok"
         THEN /\ volume' = volume \cup {ScriptFile}
              /\ custPc' = "osascript"
              /\ custOutcome' = custOutcome
         ELSE /\ custOutcome' = "Io"
              /\ UNCHANGED <<custPc, volume>>
    /\ UNCHANGED <<dmg, bg_exists, overflow_checks, applescript,
                   tplVars, mfVars, runVars, cmdVars>>

\* cmd::execute of osascript on the script.
CustExecute ==
    /\ Customizing("osascript")
    /\ \E r \in ToolResults :
         IF r = "ok"
         THEN /\ custPc' = "remove"
              /\ custOutcome' = custOutcome
         ELSE /\ custOutcome' = ToolOutcome(r)
              /\ custPc' = custPc
    /\ UNCHANGED <<dmg, bg_exists, overflow_checks, volume, applescript,
                   tplVars, mfVars, runVars, cmdVars>>

\* fs::remove_file of the script, then Ok(()).
CustRemove ==
    /\ Customizing("remove")
    /\ \E r \in {"ok", "Io"} :
         IF r = "ok"
         THEN /\ volume' = volume \ {ScriptFile}
              /\ custPc' = "done"
              /\ custOutcome' = "ok"
         ELSE /\ custOutcome' = "Io"
              /\ UNCHANGED <<custPc, volume>>
    /\ UNCHANGED <<dmg, bg_exists, overflow_checks, applescript,
                   tplVars, mfVars, runVars, cmdVars>>

NextCustomize ==
    \/ CustBackground
    \/ CustFormat
    \/ CustWrite
    \/ CustExecute
    \/ CustRemove

SpecCustomize == InitCustomize /\ [][NextCustomize]_vars

\* ------------------------------------------------------------------------
\* Claims about Tpl::parse (checked under SpecTpl)
\* ------------------------------------------------------------------------

\* The characters a variable name is written with.
NameChars == {"N", "S", "V"}

\* Length of the name that starts s: its longest prefix of name characters.
RECURSIVE NameLen(_)
NameLen(s) ==
    IF s = <<>> \/ Head(s) \notin NameChars THEN 0 ELSE 1 + NameLen(Tail(s))

\* What the specification asks of parse: the text is read once, left to
\* right; a token "$" + name whose name is registered becomes the bound
\* value, any other token and any other character is copied as it is, and
\* what has been substituted is not read again.
RECURSIVE Substituted(_, _)
Substituted(vs, s) ==
    IF s = <<>> THEN <<>>
    ELSE IF Head(s) = "$"
         THEN LET n == NameLen(Tail(s))
                  name == SubSeq(s, 2, n + 1)
                  rest == SubSeq(s, n + 2, Len(s))
              IN  IF name \in DOMAIN vs
                  THEN vs[name] \o Substituted(vs, rest)
                  ELSE <<"$">> \o name \o Substituted(vs, rest)
         ELSE <<Head(s)>> \o Substituted(vs, Tail(s))

\* C8: for every text and every mapping, parse replaces each occurrence of
\* "$KEY" of a registered KEY by its bound value (repeated occurrences and
\* several keys included) and leaves every "$TOKEN" whose name is not
\* registered unchanged: the value returned is the text with exactly the
\* registered tokens substituted.
C8_ParseSubstitutesRegisteredOnly ==
    tplPc = "done" => result = Substituted(variables, input)

\* C9: replacement is not recursive.  With N bound to a value, parse("$N")
\* returns that value literally, whatever other keys are registered.
C9_ParseNotRecursive ==
    (tplPc = "done" /\ input = <<"$", "N">> /\ <<"N">> \in DOMAIN variables)
        => result = variables[<<"N">>]

\* C27: Tpl::parse is deterministic: for the mapping and the text given,
\* the result is the same in whatever order the registered keys are
\* processed.
C27_ParseIndependentOfKeyOrder ==
    tplPc = "done" =>
        \A other \in Perms(DOMAIN variables) : result = TplParse(variables, other, input)

\* ------------------------------------------------------------------------
\* Claims about manifest resolution (checked under SpecManifest)
\* ------------------------------------------------------------------------

MfFinished == mfPc \in {"ok", "failed"}

\* The plan process_manifest builds from a package and a block, for some
\* order of the template map.
IsPlanOf(rawPackage, config) ==
    \E tplOrder \in Perms({NAME, VERSION, PLATFORM}), copy \in IterationOrders(config.copy) :
        plan = Some(ProcessManifest(BaseDir, PlatformString(platform),
                                    DeserializePackage(rawPackage),
                                    [config EXCEPT !.copy = copy], tplOrder))

\* An external packaging file is valid when it can be read and holds a
\* package with a packaging block.
ValidExternal(path) ==
    /\ files[path].kind = "cargo"
    /\ IsSome(files[path].package)
    /\ IsSome(Unwrap(files[path].package).emerge)

ExternalBlock(path) == Unwrap(Unwrap(files[path].package).emerge)

\* The three layering candidates of the primary file.
HasWorkspaceRedirect == IsSome(cargo.workspace_manifest)

HasEmbeddedBlock == IsSome(cargo.package) /\ IsSome(Unwrap(cargo.package).emerge)

EmbeddedBlock == Unwrap(Unwrap(cargo.package).emerge)

HasPackageRedirect == HasEmbeddedBlock /\ IsSome(EmbeddedBlock.manifest)

\* Whether a block sets one of the packaging directives.
SetsADirective(block) ==
    \/ IsSome(block.title) \/ IsSome(block.filename) \/ block.build # <<>>
    \/ block.copy # <<>> \/ IsSome(block.output_folder) \/ IsSome(block.icon)
    \/ IsSome(block.dmg)

HasIdentity(rawPackage) ==
    /\ DeserializePackage(rawPackage).name # <<>>
    /\ DeserializePackage(rawPackage).version # <<>>

\* A candidate nobody would call invalid: a named and versioned package with
\* a block that sets directives (and, for a file, no further redirect).
SoundExternal(path) ==
    /\ ValidExternal(path)
    /\ HasIdentity(Unwrap(files[path].package))
    /\ SetsADirective(ExternalBlock(path))
    /\ ExternalBlock(path).manifest = None

SoundEmbedded ==
    /\ HasEmbeddedBlock
    /\ HasIdentity(Unwrap(cargo.package))
    /\ SetsADirective(EmbeddedBlock)

\* C3: resolution takes the candidates in the order (a) workspace redirect,
\* (b) redirect in the package metadata, (c) embedded block, and returns the
\* plan of the first one that is present and valid: a candidate that is
\* absent, or present but invalid (its file is missing, unreadable or lacks
\* a package or a packaging block), is passed over, and resolution fails
\* only when no candidate is left.
C3_FirstValidCandidateWins ==
    (MfFinished /\ cli = None /\ cargo.kind = "cargo") =>
        LET pa == Unwrap(cargo.workspace_manifest)
            pb == Unwrap(EmbeddedBlock.manifest)
            aOut == HasWorkspaceRedirect => ~ValidExternal(pa)
            bOut == HasPackageRedirect => ~ValidExternal(pb)
        IN  /\ (HasWorkspaceRedirect /\ SoundExternal(pa)) =>
                (mfPc = "ok" /\ IsPlanOf(Unwrap(files[pa].package), ExternalBlock(pa)))
            /\ (aOut /\ HasPackageRedirect /\ SoundExternal(pb)) =>
                (mfPc = "ok" /\ IsPlanOf(Unwrap(files[pb].package), ExternalBlock(pb)))
            /\ (aOut /\ bOut /\ SoundEmbedded) =>
                (mfPc = "ok" /\ IsPlanOf(Unwrap(cargo.package), EmbeddedBlock))
            /\ (aOut /\ bOut /\ ~HasEmbeddedBlock) => mfPc = "failed"

\* The case of C4: resolution entered through Manifest::load, and the
\* package metadata of the primary file holds a block with a redirect.
RedirectFromPackage ==
    /\ cli = None
    /\ cargo.kind = "cargo"
    /\ ~HasWorkspaceRedirect
    /\ HasPackageRedirect

C5_NestedRedirectIsAnError ==
    (IsSome(extPath) /\ ValidExternal(Unwrap(extPath))
        /\ IsSome(ExternalBlock(Unwrap(extPath)).manifest))
        => mfPc # "ok"

\* C6: every plan returned has a non-empty name and a non-empty version.
C6_PlanHasNameAndVersion ==
    mfPc = "ok" => (Unwrap(plan).name # <<>> /\ Unwrap(plan).version # <<>>)

\* C14: for every manifest that resolves to a plan without `filename`, the
\* plan's filename is the plan's name, "-", the platform identifier, "-",
\* the plan's version; with `filename`, it is what Tpl::parse makes of the
\* specified value with the variables of the plan's identity.
C14_FilenameDefault ==
    (mfPc = "ok") =>
        LET p == Unwrap(plan)
            config == Unwrap(emerge_config)
        IN  IF config.filename = None
            THEN p.filename =
                    p.name \o <<"-">> \o PlatformString(platform) \o <<"-">> \o p.version
            ELSE \E tplOrder \in Perms({NAME, VERSION, PLATFORM}) :
                    p.filename =
                        TplParse((NAME :> p.name) @@ (VERSION :> p.version)
                                    @@ (PLATFORM :> PlatformString(platform)),
                                 tplOrder, Unwrap(config.filename))

\* C14 witness: a manifest without `filename` has resolved to a plan with a
\* name and a version.
C14_Witness ==
    /\ mfPc = "ok"
    /\ Unwrap(emerge_config).filename = None
    /\ Unwrap(plan).name # <<>>
    /\ Unwrap(plan).version # <<>>
    /\ platform = "linux"

\* C15: the plan's copy_operations are the pairs of the manifest's `copy`
\* entries in the order written, whatever order a map yields its entries
\* in.
C15_CopyOperationsInManifestOrder ==
    (mfPc = "ok") =>
        \E tplOrder \in Perms({NAME, VERSION, PLATFORM}) :
            Unwrap(plan).copy_operations =
                ProcessManifest(BaseDir, PlatformString(platform), Unwrap(package),
                                Unwrap(emerge_config), tplOrder).copy_operations

\* ------------------------------------------------------------------------
\* Claims about the run (checked under Spec)
\* ------------------------------------------------------------------------

\* run() has returned an error.
RunFailed == outcome \notin {"", "ok"}

\* The artifact path holds a file this run created or wrote.
ArtifactOfThisRun == out.artifact \in {"partial", "new"}

\* C1: a failed run produces no artifact: whenever the run has returned an
\* error, no file created by this run is at the final artifact path.
C1_FailedRunLeavesNoArtifact == RunFailed => ~ArtifactOfThisRun

\* Some copy operation of the plan has a source that does not exist at
\* staging time.
HasMissingSource ==
    \E i \in 1..Len(manifest.copy_operations) : ~SourceExists(manifest.copy_operations[i].src)

\* The position of the first such copy operation.
FirstMissing ==
    CHOOSE i \in 1..Len(manifest.copy_operations) :
        /\ ~SourceExists(manifest.copy_operations[i].src)
        /\ \A j \in 1..(i - 1) : SourceExists(manifest.copy_operations[j].src)

\* One of the three drivers has been chosen.
Staging == kind \in {"tar.gz", "zip", "dmg"}

\* C2: when a copy operation's source does not exist at staging time, a run
\* that stages (tar.gz, zip or dmg) never gets past the copy loop, never
\* returns success, and the files of the output folder (artifact and
\* intermediate image) are as they were before the run.
C2_MissingSourceAbortsBeforeArtifact ==
    (HasMissingSource /\ Staging) =>
        /\ pc \in {"ensure_dir", "temp_dir", "bundle", "process_icon", "copy"}
        /\ pc = "copy" => copyIdx <= FirstMissing
        /\ outcome # "ok"
        /\ out.artifact = out0.artifact
        /\ out.temp_dmg = out0.temp_dmg

\* C2 witness: a disk-image run over an earlier run's image has staged one
\* copy operation, met the missing source of the second and returned the
\* error.
C2_Witness ==
    /\ kind = "dmg"
    /\ out0.artifact = "old"
    /\ HasMissingSource
    /\ pc = "copy"
    /\ copyIdx = 2
    /\ FirstMissing = 2
    /\ outcome = "Io"

\* The positions of the build commands that have words, in plan order.
RECURSIVE NonBlank(_, _)
NonBlank(cmds, i) ==
    IF i > Len(cmds) THEN <<>>
    ELSE IF cmds[i] = <<>> THEN NonBlank(cmds, i + 1)
    ELSE <<i>> \o NonBlank(cmds, i + 1)

\* C7: build commands are started one at a time in plan order, each only
\* after the one before it has exited; after a non-zero exit the run has
\* returned the error, no later command is started and no staging or
\* artifact step is started; staging starts only after every command has
\* exited with zero; with --no-build no command is started.
C7_BuildCommandsInOrderFirstFailureAborts ==
    /\ IsPrefix(started, NonBlank(manifest.build_commands, 1))
    /\ Len(exited) <= Len(started)
    /\ Len(started) <= Len(exited) + 1
    /\ IsSome(child) <=> Len(started) = Len(exited) + 1
    /\ IsSome(child) => Unwrap(child) = started[Len(started)]
    /\ \A i \in 1..Len(exited) :
          exited[i] # 0 =>
              /\ i = Len(exited)
              /\ Len(started) = i
              /\ outcome = "CommandFailed"
              /\ pc = "wait"
              /\ kind = ""
              /\ out = out0
    /\ no_build => started = <<>>
    /\ (kind # "" /\ ~no_build) =>
          /\ started = NonBlank(manifest.build_commands, 1)
          /\ Len(exited) = Len(started)
          /\ \A i \in 1..Len(exited) : exited[i] = 0

\* C7 witness: the first of two build commands has exited non-zero and the
\* run has returned the error.
C7_Witness ==
    /\ Len(NonBlank(manifest.build_commands, 1)) = 2
    /\ started = <<1>>
    /\ exited = <<1>>
    /\ outcome = "CommandFailed"

\* The plan's icon names an existing file that cannot be decoded as an
\* image.
UndecodableIcon ==
    /\ IsSome(manifest.icon)
    /\ Unwrap(manifest.icon).exists
    /\ ~Unwrap(manifest.icon).decodable

DriverSucceeded == kind = "dmg" /\ pc \in {"cleanup", "outro", "done"}

\* The detach step that closes the session an attach step opens.
DetachOf(step) == IF step = "attach" THEN "detach" ELSE "icon_detach"

\* The steps that open or close a session, and the convert step.
SessionSteps == {"attach", "detach", "icon_attach", "icon_detach", "convert"}

DriverOrder ==
    <<"create", "attach", "customize", "sync", "detach", "convert",
      "icon_prepare", "icon_attach", "icon_set", "icon_detach", "icon_cleanup">>

\* The steps before the icon configuration.
StepsWithoutIcon == SubSeq(DriverOrder, 1, 6)

C13_NoIntermediateInOutputFolder ==
    /\ (outcome = "ok" /\ Staging) =>
          /\ ~temp_dir.exists
          /\ out.temp_dmg # "new"
          /\ (\E i \in DOMAIN calls : calls[i].step = "icon_prepare") => ~icon_dir
    /\ out.temp_dmg # "new"

\* C18: whenever the run returns success, the artifact of the selected kind
\* is in the output folder, written by this run, for every combination of
\* --archive, --dmg and the current platform.
C18_SuccessMeansArtifact == outcome = "ok" => out.artifact = "new"

\* C20: after the Attach step the captured mount point is the whole path
\* under which the volume is mounted, also when the volume's name has
\* blanks, and customize and detach are given that path.
C20_AttachCapturesWholePath ==
    (kind = "dmg" /\ pc \in {"customize", "sync", "detach"}) =>
        mount_point = Some(VolumePath(manifest.title))

\* C16: everything a copy operation writes while staging lies inside the
\* staging directory, also when the destination is absolute or has `..`
\* components.
C16_DestinationsInsideStaging ==
    \A f \in temp_dir.staged : IsPrefix(TempRoot, f.place)

\* ------------------------------------------------------------------------
\* Claims about command execution (checked under SpecCmd)
\* ------------------------------------------------------------------------

\* `text` is part of `message`.
Includes(message, text) ==
    \E i \in 0..(Len(message) - Len(text)) : SubSeq(message, i + 1, i + Len(text)) = text

\* Everything the child writes to stderr.
StderrWritten == StderrText(Len(SelectSeq(script0, LAMBDA w : w = "err")))

\* C17: whenever a child started by execute or execute_with_output has
\* exited with a non-zero status, the function returns a command-failed
\* error whose message includes the text the child wrote to stderr.
C17_FailureMessageHasStderr ==
    (cmdPc = "returned" /\ childState = "exited" /\ exitStatus # 0) =>
        /\ cmdResult.error = "CommandFailed"
        /\ Includes(cmdResult.message, StderrWritten)

\* execute waits for stdout while the child, with nothing written to
\* stdout that is unread, waits for room in the stderr pipe.
Stalled ==
    /\ function = "execute"
    /\ cmdPc = "stdout"
    /\ pipes.out = 0
    /\ childState = "running"
    /\ script # <<>>
    /\ Head(script) = "err"
    /\ pipes.err = PipeCap

\* C19: execute never stalls: the child is never blocked on a full pipe
\* while the parent waits on the other stream.
C19_ExecuteNeverStalls == ~Stalled

\* ------------------------------------------------------------------------
\* Claims about the Finder layout script (checked under SpecCustomize)
\* ------------------------------------------------------------------------

\* C21: the window bounds of the script are (x, y, x + w, y + h) for the
\* window position (x, y) and size (w, h) of the plan, each the fixed default
\* when the plan does not give it; the sums neither wrap nor fail for any
\* i32 coordinates.
C21_BoundsArePositionPlusSize ==
    LET position == IF IsSome(dmg) /\ IsSome(Unwrap(dmg).window_position)
                    THEN Unwrap(Unwrap(dmg).window_position) ELSE <<100, 100>>
        size == IF IsSome(dmg) /\ IsSome(Unwrap(dmg).window_size)
                THEN Unwrap(Unwrap(dmg).window_size) ELSE <<600, 400>>
    IN  /\ custOutcome # "panic"
        /\ IsSome(applescript) =>
             /\ ~Overflows(position[1], size[1])
             /\ ~Overflows(position[2], size[2])
             /\ Unwrap(applescript).bounds =
                  <<position[1], position[2],
                    position[1] + size[1], position[2] + size[2]>>

\* C22: whenever the script names a background picture, the picture has been
\* copied into .background on the volume before the script exists.
C22_BackgroundCopiedBeforeScript ==
    (IsSome(applescript) /\ Unwrap(applescript).background) => BackgroundFile \in volume

\* ------------------------------------------------------------------------
\* Claims about the staged tree and the archive (checked under Spec)
\* ------------------------------------------------------------------------

\* The loop over the copy operations has ended and nothing has been done
\* with the staged tree yet.
StagingDone == Running("create_file") \/ Running("symlink")

\* C23: in the staging of a disk image a destination is written below the
\* staging root exactly when its extension is one of md, txt, pdf, html,
\* toml, json, yml, yaml (the extensions the tar.gz staging takes for
\* documentation), and below Contents/MacOS of the bundle otherwise.
C23_BundleRoutingByDocExtension ==
    (StagingDone /\ kind = "dmg") =>
        \A i \in 1..Len(manifest.copy_operations) :
            LET dst == manifest.copy_operations[i].dst
                root == IF IsDocumentation("tar.gz", dst) THEN TempRoot ELSE MacosDir
            IN  \E f \in temp_dir.staged : IsPrefix(Resolve(<<>>, PathJoin(root, dst)), f.place)

\* A staged file is where executables are put: below Contents/MacOS of the
\* bundle, or in the application folder of a tar.gz tree under a name that
\* is not documentation.
ExecutableBearing(f) ==
    IF kind = "dmg"
    THEN IsPrefix(MacosDir, f.place)
    ELSE IsPrefix(TempRoot \o <<"app">>, f.place) /\ ~IsDocumentation("tar.gz", f.place)

\* C24: after staging on a POSIX host (a tar.gz or a disk-image run), every
\* regular file in an executable-bearing location has mode 0755 and no
\* staged file is world-writable, children of a copied directory included.
C24_StagedModes ==
    (StagingDone /\ kind \in {"tar.gz", "dmg"}) =>
        \A f \in InStaging(temp_dir.staged) :
            /\ ~WorldWritable(f.mode)
            /\ ExecutableBearing(f) => f.mode = Mode755

\* The tree the first n copy operations write into an empty directory.
RECURSIVE StagedTree(_, _, _)
StagedTree(output, ops, n) ==
    IF n = 0 THEN {} ELSE StageOne(StagedTree(output, ops, n - 1), output, ops[n])

\* C25: the staged tree is decided by the plan alone: whatever the staging
\* directory held before the run, after staging it holds exactly what the
\* copy operations write into an empty directory, and nothing that was there
\* before.
C25_StagingStartsFromEmpty ==
    StagingDone =>
        /\ ~temp_dir.stale
        /\ Leftover \notin temp_dir.staged
        /\ temp_dir.staged =
             StagedTree(kind, manifest.copy_operations, Len(manifest.copy_operations))

\* C25 witness: a run that found the leftovers of an earlier run has staged
\* the files of its plan.
C25_Witness ==
    /\ StagingDone
    /\ temp_dir0.stale
    /\ Leftover \in temp_dir0.staged
    /\ temp_dir.staged # {}

\* C26: when the emitter has returned success, every regular file of the
\* staging tree has an entry at its relative path with its content, and a
\* tar.gz entry of a file that is not documentation has the mode of the
\* file; no file is left out.
C26_ArchiveHasEveryStagedFile ==
    (Running("cleanup") /\ kind \in {"tar.gz", "zip"}) =>
        \A f \in InStaging(temp_dir.staged) :
            \E e \in archive :
                /\ e.path = SubSeq(f.place, Len(TempRoot) + 1, Len(f.place))
                /\ e.src = f.src
                /\ (kind = "tar.gz" /\ ~IsDocumentation("tar.gz", f.place)) => e.mode = f.mode

=============================================================================
